---- MODULE Spec2Model ----
(***************************************************************************)
(* Model of the scrabble query engine (scrabble/query.py):                 *)
(* parse_letter_pool, LinearQuery and TransverseQuery.                     *)
(*                                                                         *)
(* Strings are sequences of one-character strings.  A Counter is a         *)
(* function whose DOMAIN is the set of its keys; a missing key reads 0.    *)
(***************************************************************************)
EXTENDS Integers, Sequences, FiniteSets, TLC

VARIABLES
    pool_spec,      \* argument of parse_letter_pool
    parse_status,   \* "pending" | "returned" | "raised"
    pool,           \* the Counter parse_letter_pool returned; self.pool of the query
    wordlist,       \* the WordList handed to execute
    kind,           \* "none" | "linear" | "transverse": the class constructed
    string,         \* self.string: the query string
    context,        \* self.context: the context tokens (TransverseQuery)
    status,         \* "new" | "ready" | "ValueError" | "QueryError" | "running" | "done"
    _regex,         \* LinearQuery._regex
    _start,         \* TransverseQuery._start
    _end,           \* TransverseQuery._end
    _multipliers,   \* dict pos -> 2 | 3
    _fixed_letters, \* dict pos -> Letter
    _open_letters,  \* keys of TransverseQuery._open_letters
    _context_parts, \* dict pos -> <<before, after>>
    _letter_pool,   \* the working Counter
    regex,          \* the local regex of TransverseQuery.execute
    remaining,      \* words the loop over wordlist has not reached yet
    validated,      \* the <<word, start_pos>> handed to _validate_and_build_match
    yielded,        \* the match records yielded so far
    calls,          \* number of calls of execute on the query
    earlier         \* the match records the call before this one yielded

poolVars == <<pool_spec, parse_status>>

queryVars == <<kind, string, context, _regex, _start, _end, _multipliers, _fixed_letters,
               _open_letters, _context_parts, _letter_pool>>

runVars == <<regex, remaining, validated, yielded>>

callVars == <<calls, earlier>>

vars == <<poolVars, pool, wordlist, status, queryVars, runVars, callVars>>

----------------------------------------------------------------------------
(* Bounds *)

\* longest pool specification handed to parse_letter_pool on its own
MaxSpecLen == 3

\* largest count of one tile in the pool of a query
MaxCount == 2

\* most positions of a query string
MaxPatLen == 2

\* longest word of a wordlist
MaxWordLen == 3

\* most letters of a wordlist, all its words together
MaxLetters == 3

\* most calls of execute on one query
MaxCalls == 2

----------------------------------------------------------------------------
(* letters.py *)

\* The letters of the model: two of the 26 letters of the Letter enum.
ALL_LETTERS == {"A", "B"}

WILD == "*"

Letter == ALL_LETTERS \cup {WILD}

LETTER_SCORES == [l \in Letter |-> CASE l = "A" -> 1 [] l = "B" -> 3 [] l = "*" -> 0]

\* str.upper() on one character
Upper(c) == CASE c = "a" -> "A" [] c = "b" -> "B" [] OTHER -> c

\* str.islower() on one character
IsLower(c) == c \in {"a", "b"}

----------------------------------------------------------------------------
(* Counter *)

EmptyCounter == [k \in {} |-> 0]

\* Counter.__getitem__ / __missing__
Get(c, k) == IF k \in DOMAIN c THEN c[k] ELSE 0

\* c[k] += n
CounterAdd(c, k, n) == [x \in DOMAIN c \cup {k} |-> IF x = k THEN Get(c, k) + n ELSE c[x]]

RECURSIVE SumOver(_, _)
SumOver(c, S) == IF S = {} THEN 0
                 ELSE LET k == CHOOSE x \in S : TRUE IN c[k] + SumOver(c, S \ {k})

\* Counter.total()
Total(c) == SumOver(c, DOMAIN c)

----------------------------------------------------------------------------
(* parse_letter_pool *)

DigitChars == <<"0", "1", "2", "3", "4", "5", "6", "7", "8", "9">>

Digits == {DigitChars[i] : i \in 1..Len(DigitChars)}

DigitVal(c) == (CHOOSE i \in 1..Len(DigitChars) : DigitChars[i] = c) - 1

\* characters of the class [a-z*] under re.IGNORECASE
LetterChars == {"a", "A", "b", "B", "*"}

\* characters a pool specification is drawn from ("!" is outside the grammar)
PoolChars == {"a", "A", "b", "*", "2", "0", "!"}

\* \d+ is greedy: the index just past the digit run that starts at i
RECURSIVE DigitRunEnd(_, _)
DigitRunEnd(s, i) == IF i <= Len(s) /\ s[i] \in Digits THEN DigitRunEnd(s, i + 1) ELSE i

\* int() of the digits s[i..j-1]
RECURSIVE IntOf(_, _, _)
IntOf(s, i, j) == IF j <= i THEN 0 ELSE 10 * IntOf(s, i, j - 1) + DigitVal(s[j - 1])

\* _letter_re tried at index i: (?P<count>\d+)?(?P<letter>[a-z*]).
\* Backtracking into the digit run cannot help: a shorter run is followed by a digit.
LetterReMatch(s, i) ==
    LET j == DigitRunEnd(s, i) IN
    IF j <= Len(s) /\ s[j] \in LetterChars
    THEN [ok |-> TRUE, next |-> j + 1, hasCount |-> j > i, count |-> IntOf(s, i, j), letter |-> s[j]]
    ELSE [ok |-> FALSE, next |-> i + 1, hasCount |-> FALSE, count |-> 0, letter |-> ""]

\* a missing count read as 0
TokenCountNoDefault(m) == m.count

\* count = int(s) if (s := captures.get('count')) is not None else 1
TokenCount(m) == IF m.hasCount THEN m.count ELSE 1

\* the loop over re.finditer(_letter_re, spec): text that matches nothing is skipped
RECURSIVE ParseFrom(_, _, _)
ParseFrom(s, i, counter) ==
    IF i > Len(s) THEN counter
    ELSE LET m == LetterReMatch(s, i) IN
         IF m.ok THEN ParseFrom(s, m.next, CounterAdd(counter, Upper(m.letter), TokenCount(m)))
         ELSE ParseFrom(s, m.next, counter)

parse_letter_pool(spec) == ParseFrom(spec, 1, EmptyCounter)

----------------------------------------------------------------------------
(* Compiled regular expressions: fixed-length sequences of character classes *)

\* None
NoRegex == [compiled |-> FALSE, start |-> FALSE, end |-> FALSE, parts |-> <<>>]

\* re.compile(''.join(regex_parts)): '^' and '$' are kept as the two flags
Compile(start, end, parts) == [compiled |-> TRUE, start |-> start, end |-> end, parts |-> parts]

----------------------------------------------------------------------------
(* Pool parsing as a state machine *)

RECURSIVE SeqsUpTo(_, _)
SeqsUpTo(S, n) == IF n = 0 THEN {<<>>}
                  ELSE LET T == SeqsUpTo(S, n - 1) IN
                       T \cup {Append(t, c) : t \in {u \in T : Len(u) = n - 1}, c \in S}

PoolSpecs == SeqsUpTo(PoolChars, MaxSpecLen)

\* the state of a query that has not been constructed
NoQuery ==
    /\ kind = "none"
    /\ string = <<>>
    /\ context = <<>>
    /\ status = "new"
    /\ _regex = NoRegex
    /\ _start = FALSE
    /\ _end = FALSE
    /\ _multipliers = EmptyCounter
    /\ _fixed_letters = EmptyCounter
    /\ _open_letters = {}
    /\ _context_parts = EmptyCounter
    /\ _letter_pool = EmptyCounter
    /\ regex = NoRegex
    /\ remaining = {}
    /\ validated = {}
    /\ yielded = {}
    /\ calls = 0
    /\ earlier = {}

InitPool ==
    /\ pool_spec \in PoolSpecs
    /\ parse_status = "pending"
    /\ pool = EmptyCounter
    /\ wordlist = {}
    /\ NoQuery

\* exec_linear_query: pool = parse_letter_pool(args.letter_pool)
ParsePool ==
    /\ parse_status = "pending"
    /\ pool' = parse_letter_pool(pool_spec)
    /\ parse_status' = "returned"
    /\ UNCHANGED <<pool_spec, wordlist, status, queryVars, runVars, callVars>>

NextPool == ParsePool

SpecPool == InitPool /\ [][NextPool]_vars

----------------------------------------------------------------------------
(* Query strings *)

\* the characters of the class [a-zA-Z.#!] that query strings are built from
SpecChars == {".", "#", "!", "A", "a", "b"}

\* _query_re.fullmatch(s): (?P<start>/)?(?P<spec>[a-zA-Z.#!]*)(?P<end>/)?
\* A leading "/" is taken by the start group; of what is left a trailing "/" is
\* the end group, and every other character must be in the class.
QueryReFullmatch(s) ==
    LET start == Len(s) >= 1 /\ s[1] = "/"
        rest  == IF start THEN Tail(s) ELSE s
        end   == Len(rest) >= 1 /\ rest[Len(rest)] = "/"
        spec  == IF end THEN SubSeq(rest, 1, Len(rest) - 1) ELSE rest
    IN [ok |-> \A i \in 1..Len(spec) : spec[i] \in SpecChars,
        start |-> start, end |-> end, spec |-> spec]

\* _letter_chars = set(letter.value for letter in ALL_LETTERS)
_letter_chars == ALL_LETTERS

\* letter_pat / any_letter: [A-Z] when the pool has the WILD key, else the pool's keys
LetterPat(p) == IF WILD \in DOMAIN p THEN ALL_LETTERS ELSE DOMAIN p

\* shortfall = sum(-c for c in self._letter_pool.values() if c < 0)
RECURSIVE ShortfallOver(_, _)
ShortfallOver(c, S) ==
    IF S = {} THEN 0
    ELSE LET k == CHOOSE x \in S : TRUE IN
         (IF c[k] < 0 THEN -c[k] ELSE 0) + ShortfallOver(c, S \ {k})

Shortfall(c) == ShortfallOver(c, DOMAIN c)

\* the shortfall test left out
SatisfiableAlways(c) == TRUE

\* not (self._letter_pool[Letter.WILD] < shortfall)
Satisfiable(c) == ~(Get(c, WILD) < Shortfall(c))

\* d[k] = v on a dict
DictSet(d, k, v) == [x \in DOMAIN d \cup {k} |-> IF x = k THEN v ELSE d[x]]

----------------------------------------------------------------------------
(* LinearQuery._parse_query_str *)

\* the loop "for pos, c in enumerate(spec)", from position pos on
RECURSIVE LinearParseLoop(_, _, _, _)
LinearParseLoop(spec, pos, letter_pat, acc) ==
    IF pos >= Len(spec) THEN acc
    ELSE LET c == spec[pos + 1] IN
         IF c = "."
         THEN LinearParseLoop(spec, pos + 1, letter_pat,
                  [acc EXCEPT !.regex_parts = Append(@, letter_pat)])
         ELSE IF c = "#"
         THEN LinearParseLoop(spec, pos + 1, letter_pat,
                  [acc EXCEPT !.regex_parts = Append(@, letter_pat),
                              !.multipliers = DictSet(@, pos, 2)])
         ELSE IF c = "!"
         THEN LinearParseLoop(spec, pos + 1, letter_pat,
                  [acc EXCEPT !.regex_parts = Append(@, letter_pat),
                              !.multipliers = DictSet(@, pos, 3)])
         ELSE IF Upper(c) \in _letter_chars
         THEN LinearParseLoop(spec, pos + 1, letter_pat,
                  [acc EXCEPT !.regex_parts = Append(@, {Upper(c)}),
                              !.fixed_letters = DictSet(@, pos, Upper(c)),
                              !.letter_pool = IF IsLower(c) THEN CounterAdd(@, Upper(c), -1) ELSE @])
         ELSE [acc EXCEPT !.error = "ValueError"]

\* The fields of a LinearQuery after __init__(s, p), and the error raised if any.
LinearParse(s, p) ==
    LET m == QueryReFullmatch(s)
        fresh == [error |-> "none", regex |-> NoRegex, regex_parts |-> <<>>,
                  multipliers |-> EmptyCounter, fixed_letters |-> EmptyCounter,
                  letter_pool |-> p]
    IN IF ~m.ok THEN [fresh EXCEPT !.error = "ValueError"]
       ELSE IF Len(m.spec) = 0 THEN fresh
       ELSE LET acc == LinearParseLoop(m.spec, 0, LetterPat(p), fresh) IN
            IF acc.error # "none" THEN acc
            ELSE IF ~Satisfiable(acc.letter_pool) THEN [acc EXCEPT !.error = "QueryError"]
            ELSE [acc EXCEPT !.regex = Compile(m.start, m.end, acc.regex_parts)]

----------------------------------------------------------------------------
(* Matching: Pattern.finditer(word) for a compiled fixed-length pattern *)

\* positions are 0-based as in the source
Ch(word, idx) == word[idx + 1]

\* a match that ignores '$'
MatchAtNoEnd(re, word, s) ==
    /\ s + Len(re.parts) <= Len(word)
    /\ re.start => s = 0
    /\ \A p \in 0..(Len(re.parts) - 1) : Ch(word, s + p) \in re.parts[p + 1]

\* the pattern matches the window of word that begins at s
MatchAt(re, word, s) ==
    /\ s + Len(re.parts) <= Len(word)
    /\ re.start => s = 0
    /\ re.end => s + Len(re.parts) = Len(word)
    /\ \A p \in 0..(Len(re.parts) - 1) : Ch(word, s + p) \in re.parts[p + 1]

\* the start offsets finditer reports from s on: the scan resumes at the end of
\* a match, or one further after an empty match
RECURSIVE FindIter(_, _, _)
FindIter(re, word, s) ==
    IF s > Len(word) THEN <<>>
    ELSE IF MatchAt(re, word, s)
    THEN <<s>> \o FindIter(re, word, IF Len(re.parts) = 0 THEN s + 1 ELSE s + Len(re.parts))
    ELSE FindIter(re, word, s + 1)

----------------------------------------------------------------------------
(* _validate_and_build_match *)

\* None
NoMatch == [matched |-> FALSE, word |-> <<>>, score |-> 0, start_pos |-> 0, extra_words |-> <<>>]

\* self._multipliers.get(pos, 1)
MultOf(pos) == IF pos \in DOMAIN _multipliers THEN _multipliers[pos] ELSE 1

\* check_letters built from word[start_pos:] only
CheckLettersFromStart(word, start_pos) ==
    { <<MultOf(idx - start_pos), idx - start_pos, Ch(word, idx)>> :
        idx \in {i \in start_pos..(Len(word) - 1) : (i - start_pos) \notin DOMAIN _fixed_letters} }

\* check_letters as a set: (mult, pos, letter) for every character of the word
\* whose position relative to start_pos is not a fixed position
CheckLetters(word, start_pos) ==
    { <<MultOf(idx - start_pos), idx - start_pos, Ch(word, idx)>> :
        idx \in {i \in 0..(Len(word) - 1) : (i - start_pos) \notin DOMAIN _fixed_letters} }

\* tuple order on (mult, pos, letter); pos is unique, the letter never decides
TupleLess(a, b) == a[1] < b[1] \/ (a[1] = b[1] /\ a[2] < b[2])

\* check_letters.sort() without reverse=True
RECURSIVE SortAscending(_)
SortAscending(S) ==
    IF S = {} THEN <<>>
    ELSE LET lo == CHOOSE x \in S : \A y \in S \ {x} : TupleLess(x, y)
         IN <<lo>> \o SortAscending(S \ {lo})

\* check_letters.sort(reverse=True)
RECURSIVE SortReverse(_)
SortReverse(S) ==
    IF S = {} THEN <<>>
    ELSE LET hi == CHOOSE x \in S : \A y \in S \ {x} : TupleLess(y, x)
         IN <<hi>> \o SortReverse(S \ {hi})

\* the tile the loop body picks for letter let: the letter, WILD, or "none" (return None)
PickTile(use_letters, let) ==
    IF Get(use_letters, let) >= Get(_letter_pool, let)
    THEN IF Get(use_letters, WILD) >= Get(_letter_pool, WILD) THEN "none" ELSE WILD
    ELSE let

\* sum(let.score for let in self._fixed_letters.values())
RECURSIVE FixedScoreOver(_)
FixedScoreOver(S) ==
    IF S = {} THEN 0
    ELSE LET k == CHOOSE x \in S : TRUE IN LETTER_SCORES[_fixed_letters[k]] + FixedScoreOver(S \ {k})

FixedScore == FixedScoreOver(DOMAIN _fixed_letters)

\* LinearQuery: the loop "for mult, pos, let in check_letters", from index i on
RECURSIVE LinearCheckLoop(_, _, _)
LinearCheckLoop(check_letters, i, acc) ==
    IF i > Len(check_letters) THEN acc
    ELSE LET mult == check_letters[i][1]
             tile == PickTile(acc.use_letters, check_letters[i][3])
         IN IF tile = "none" THEN [acc EXCEPT !.ok = FALSE]
            ELSE LinearCheckLoop(check_letters, i + 1,
                     [acc EXCEPT !.use_letters = CounterAdd(@, tile, 1),
                                 !.score = @ + LETTER_SCORES[tile] * mult])

\* the quick check: required_letters > self._letter_pool.total()
QuickReject(word) == Len(word) - Cardinality(DOMAIN _fixed_letters) > Total(_letter_pool)

\* LinearQuery._validate_and_build_match(word, start_pos)
LinearValidate(word, start_pos) ==
    IF QuickReject(word) THEN NoMatch
    ELSE LET r == LinearCheckLoop(SortReverse(CheckLetters(word, start_pos)), 1,
                      [ok |-> TRUE, use_letters |-> EmptyCounter, score |-> 0])
         IN IF ~r.ok THEN NoMatch
            ELSE [matched |-> TRUE, word |-> word, score |-> r.score + FixedScore,
                  start_pos |-> start_pos, extra_words |-> <<>>]

----------------------------------------------------------------------------
(* LinearQuery._match_empty_query *)

\* required_letters = set(Letter(c) for c in word): every letter counted once
RECURSIVE CountLettersOnce(_, _)
CountLettersOnce(word, i) ==
    IF i = 0 THEN EmptyCounter
    ELSE LET c == CountLettersOnce(word, i - 1) IN
         IF word[i] \in DOMAIN c THEN c ELSE CounterAdd(c, word[i], 1)

\* required_letters = Counter(Letter(c) for c in word)
RECURSIVE CountLetters(_, _)
CountLetters(word, i) ==
    IF i = 0 THEN EmptyCounter ELSE CounterAdd(CountLetters(word, i - 1), word[i], 1)

\* sorted(required_letters, key=lambda let: let.score, reverse=True): the sort is
\* stable, letters of equal score keep the order of their first occurrence
FirstIndex(word, l) == CHOOSE i \in 1..Len(word) : word[i] = l /\ \A j \in 1..(i - 1) : word[j] # l

RECURSIVE SortByScore(_, _)
SortByScore(word, S) ==
    IF S = {} THEN <<>>
    ELSE LET hi == CHOOSE x \in S : \A y \in S \ {x} :
                       \/ LETTER_SCORES[x] > LETTER_SCORES[y]
                       \/ LETTER_SCORES[x] = LETTER_SCORES[y] /\ FirstIndex(word, x) < FirstIndex(word, y)
         IN <<hi>> \o SortByScore(word, S \ {hi})

\* the inner loop "for _ in range(required_letters[let])": let is rebound to WILD
\* by the body and stays WILD for the iterations that are left
RECURSIVE EmptyInnerLoop(_, _, _)
EmptyInnerLoop(let, n, acc) ==
    IF n = 0 \/ ~acc.ok THEN acc
    ELSE LET tile == PickTile(acc.use_letters, let) IN
         IF tile = "none" THEN [acc EXCEPT !.ok = FALSE]
         ELSE EmptyInnerLoop(tile, n - 1,
                  [acc EXCEPT !.use_letters = CounterAdd(@, tile, 1),
                              !.score = @ + LETTER_SCORES[tile]])

RECURSIVE EmptyOuterLoop(_, _, _, _)
EmptyOuterLoop(order, required_letters, i, acc) ==
    IF i > Len(order) \/ ~acc.ok THEN acc
    ELSE EmptyOuterLoop(order, required_letters, i + 1,
             EmptyInnerLoop(order[i], required_letters[order[i]], acc))

_match_empty_query(word) ==
    IF Len(word) > Total(_letter_pool) THEN NoMatch
    ELSE LET required_letters == CountLetters(word, Len(word))
             r == EmptyOuterLoop(SortByScore(word, DOMAIN required_letters), required_letters, 1,
                      [ok |-> TRUE, use_letters |-> EmptyCounter, score |-> 0])
         IN IF ~r.ok THEN NoMatch
            ELSE [matched |-> TRUE, word |-> word, score |-> r.score, start_pos |-> 0,
                  extra_words |-> <<>>]

----------------------------------------------------------------------------
(* TransverseQuery *)

\* the loop of TransverseQuery._parse_query_str, from position pos on
RECURSIVE TransverseParseLoop(_, _, _)
TransverseParseLoop(spec, pos, acc) ==
    IF pos >= Len(spec) THEN acc
    ELSE LET c == spec[pos + 1] IN
         IF c = "."
         THEN TransverseParseLoop(spec, pos + 1, [acc EXCEPT !.open_letters = @ \cup {pos}])
         ELSE IF c = "#"
         THEN TransverseParseLoop(spec, pos + 1,
                  [acc EXCEPT !.open_letters = @ \cup {pos}, !.multipliers = DictSet(@, pos, 2)])
         ELSE IF c = "!"
         THEN TransverseParseLoop(spec, pos + 1,
                  [acc EXCEPT !.open_letters = @ \cup {pos}, !.multipliers = DictSet(@, pos, 3)])
         ELSE IF Upper(c) \in _letter_chars
         THEN TransverseParseLoop(spec, pos + 1,
                  [acc EXCEPT !.fixed_letters = DictSet(@, pos, Upper(c)),
                              !.letter_pool = IF IsLower(c) THEN CounterAdd(@, Upper(c), -1) ELSE @])
         ELSE [acc EXCEPT !.error = "ValueError"]

\* _context_re.fullmatch(part): [a-z]*\.[a-z]* under re.IGNORECASE
ContextLetterChars == {"a", "A", "b", "B"}

DotIndex(part) == CHOOSE i \in 1..Len(part) : part[i] = "."

ContextReFullmatch(part) ==
    LET ok == /\ Cardinality({i \in 1..Len(part) : part[i] = "."}) = 1
              /\ \A i \in 1..Len(part) : part[i] \in ContextLetterChars \cup {"."}
    IN [ok |-> ok,
        before |-> IF ok THEN SubSeq(part, 1, DotIndex(part) - 1) ELSE <<>>,
        after  |-> IF ok THEN SubSeq(part, DotIndex(part) + 1, Len(part)) ELSE <<>>]

\* str.upper()
UpperStr(s) == [i \in 1..Len(s) |-> Upper(s[i])]

\* sorted(self._open_letters.keys())
RECURSIVE SortedPositions(_)
SortedPositions(S) ==
    IF S = {} THEN <<>>
    ELSE LET lo == CHOOSE x \in S : \A y \in S : x <= y IN <<lo>> \o SortedPositions(S \ {lo})

\* the loop "for pos, part in zip(open_pos, context, strict=True)", from index i on
RECURSIVE ContextLoop(_, _, _, _)
ContextLoop(open_pos, ctx, i, acc) ==
    IF i > Len(ctx) THEN acc
    ELSE LET m == ContextReFullmatch(ctx[i]) IN
         IF ~m.ok THEN [acc EXCEPT !.error = "ValueError"]
         ELSE ContextLoop(open_pos, ctx, i + 1,
                  IF m.before # <<>> \/ m.after # <<>>
                  THEN [acc EXCEPT !.context_parts =
                            DictSet(@, open_pos[i], <<UpperStr(m.before), UpperStr(m.after)>>)]
                  ELSE acc)

\* _parse_context_parts without the comparison of lengths, zip without strict
ParseContextPartsUncounted(ctx, acc) ==
    LET open_pos == SortedPositions(acc.open_letters)
        n == IF Len(ctx) < Len(open_pos) THEN Len(ctx) ELSE Len(open_pos)
    IN ContextLoop(open_pos, SubSeq(ctx, 1, n), 1, acc)

\* TransverseQuery._parse_context_parts
ParseContextParts(ctx, acc) ==
    IF Len(ctx) # Cardinality(acc.open_letters) THEN [acc EXCEPT !.error = "ValueError"]
    ELSE ContextLoop(SortedPositions(acc.open_letters), ctx, 1, acc)

\* The fields of a TransverseQuery after __init__(s, ctx, p), and the error raised if any.
TransverseParse(s, ctx, p) ==
    LET m == QueryReFullmatch(s)
        fresh == [error |-> "none", start |-> m.start, end |-> m.end,
                  open_letters |-> {}, context_parts |-> EmptyCounter,
                  multipliers |-> EmptyCounter, fixed_letters |-> EmptyCounter,
                  letter_pool |-> p]
    IN IF ~m.ok THEN [fresh EXCEPT !.error = "ValueError"]
       ELSE LET acc == TransverseParseLoop(m.spec, 0, fresh) IN
            IF acc.error # "none" THEN acc
            ELSE IF ~Satisfiable(acc.letter_pool) THEN [acc EXCEPT !.error = "QueryError"]
            ELSE ParseContextParts(ctx, acc)

\* every candidate letter allowed, the lexicon not consulted
AllowedLettersUnchecked(before, after, words) ==
    IF WILD \in DOMAIN pool THEN ALL_LETTERS ELSE DOMAIN pool

\* TransverseQuery._get_allowed_letters_from_context
_get_allowed_letters_from_context(before, after, words) ==
    LET candidates == IF WILD \in DOMAIN pool THEN ALL_LETTERS ELSE DOMAIN pool
    IN {letter \in candidates : (before \o <<letter>> \o after) \in words}

\* the class _build_linear_query_regex appends for position pos
RegexPart(pos, words) ==
    IF pos \in DOMAIN _fixed_letters THEN {_fixed_letters[pos]}
    ELSE IF pos \in DOMAIN _context_parts
    THEN _get_allowed_letters_from_context(_context_parts[pos][1], _context_parts[pos][2], words)
    ELSE LetterPat(pool)

\* TransverseQuery._build_linear_query_regex: None as soon as a context position
\* allows no letter
_build_linear_query_regex(words) ==
    LET letter_pos == SortedPositions(_open_letters \cup DOMAIN _fixed_letters)
        parts == [i \in 1..Len(letter_pos) |-> RegexPart(letter_pos[i], words)]
    IN IF \E i \in 1..Len(letter_pos) :
              /\ letter_pos[i] \notin DOMAIN _fixed_letters
              /\ letter_pos[i] \in DOMAIN _context_parts
              /\ parts[i] = {}
       THEN NoRegex
       ELSE Compile(_start, _end, parts)

\* sum(Letter(c).score for c in part) over both parts
RECURSIVE PartScore(_)
PartScore(part) == IF part = <<>> THEN 0 ELSE LETTER_SCORES[Head(part)] + PartScore(Tail(part))

\* TransverseQuery: the loop "for mult, pos, let in check_letters", from index i on
RECURSIVE TransverseCheckLoop(_, _, _)
TransverseCheckLoop(check_letters, i, acc) ==
    IF i > Len(check_letters) THEN acc
    ELSE LET mult == check_letters[i][1]
             pos  == check_letters[i][2]
             tile == PickTile(acc.use_letters, check_letters[i][3])
         IN IF tile = "none" THEN [acc EXCEPT !.ok = FALSE]
            ELSE LET score == acc.score + LETTER_SCORES[tile] * mult
                     extra == IF pos \in DOMAIN _context_parts
                              THEN LET before == _context_parts[pos][1]
                                       after  == _context_parts[pos][2]
                                   IN <<[word  |-> before \o <<tile>> \o after,
                                         score |-> score + PartScore(before) + PartScore(after)]>>
                              ELSE <<>>
                 IN TransverseCheckLoop(check_letters, i + 1,
                        [acc EXCEPT !.use_letters = CounterAdd(@, tile, 1),
                                    !.score = score,
                                    !.extra_words = @ \o extra])

\* TransverseQuery._validate_and_build_match(word, start_pos)
TransverseValidate(word, start_pos) ==
    IF QuickReject(word) THEN NoMatch
    ELSE LET r == TransverseCheckLoop(SortReverse(CheckLetters(word, start_pos)), 1,
                      [ok |-> TRUE, use_letters |-> EmptyCounter, score |-> 0, extra_words |-> <<>>])
         IN IF ~r.ok THEN NoMatch
            ELSE [matched |-> TRUE, word |-> word, score |-> r.score + FixedScore,
                  start_pos |-> start_pos, extra_words |-> r.extra_words]

\* TransverseQueryMatch.total_score
RECURSIVE SumExtra(_)
SumExtra(extra_words) == IF extra_words = <<>> THEN 0 ELSE Head(extra_words).score + SumExtra(Tail(extra_words))

total_score(m) == m.score + SumExtra(m.extra_words)

----------------------------------------------------------------------------
(* The inputs of a query *)

\* the pool specification "<a>a<b>b<w>*", a tile with count 0 left out
PoolSpecOf(a, b, w) ==
    (IF a = 0 THEN <<>> ELSE <<DigitChars[a + 1], "a">>)
        \o (IF b = 0 THEN <<>> ELSE <<DigitChars[b + 1], "b">>)
        \o (IF w = 0 THEN <<>> ELSE <<DigitChars[w + 1], "*">>)

\* specifications of the pools of the queries; the empty pool is left out
\* (its character class "[]" is not a regular expression)
QueryPoolSpecs ==
    {PoolSpecOf(a, b, w) : a \in 0..MaxCount, b \in 0..MaxCount, w \in 0..MaxCount} \ {<<>>}

\* uppercase words over the alphabet
Words == SeqsUpTo(ALL_LETTERS, MaxWordLen) \ {<<>>}

RECURSIVE LettersOf(_)
LettersOf(W) == IF W = {} THEN 0 ELSE LET w == CHOOSE x \in W : TRUE IN Len(w) + LettersOf(W \ {w})

\* the wordlists: non-empty sets of words of at most MaxLetters letters altogether
WordLists == {W \in SUBSET Words : W # {} /\ Cardinality(W) <= MaxLetters /\ LettersOf(W) <= MaxLetters}

WithAnchors(body, start, end) ==
    (IF start THEN <<"/">> ELSE <<>>) \o body \o (IF end THEN <<"/">> ELSE <<>>)

\* query strings: every body with every choice of anchors, and two strings
\* _query_re does not match
QueryStrings ==
    {WithAnchors(body, start, end) : body \in SeqsUpTo(SpecChars, MaxPatLen), start, end \in BOOLEAN}
        \cup {<<"/", "/", "/">>, <<"a", "/", "a">>}

\* context tokens: no context, a prefix, a suffix, and one without the "."
ContextTokens == {<<".">>, <<"a", ".">>, <<".", "b">>, <<"a">>}

ContextLists == SeqsUpTo(ContextTokens, MaxPatLen)

----------------------------------------------------------------------------
(* Queries as a state machine *)

Init ==
    /\ pool_spec \in QueryPoolSpecs
    /\ parse_status = "returned"
    /\ pool = parse_letter_pool(pool_spec)
    /\ wordlist = {}
    /\ NoQuery

\* query = LinearQuery(s, pool)
NewLinearQuery ==
    /\ status = "new"
    /\ \E s \in QueryStrings :
        LET q == LinearParse(s, pool) IN
        /\ kind' = "linear"
        /\ string' = s
        /\ status' = IF q.error = "none" THEN "ready" ELSE q.error
        /\ _regex' = q.regex
        /\ _multipliers' = q.multipliers
        /\ _fixed_letters' = q.fixed_letters
        /\ _letter_pool' = q.letter_pool
    /\ UNCHANGED <<poolVars, pool, wordlist, context, _start, _end, _open_letters,
                   _context_parts, runVars, callVars>>

\* query = TransverseQuery(s, ctx, pool)
NewTransverseQuery ==
    /\ status = "new"
    /\ \E s \in QueryStrings, ctx \in ContextLists :
        LET q == TransverseParse(s, ctx, pool) IN
        /\ kind' = "transverse"
        /\ string' = s
        /\ context' = ctx
        /\ status' = IF q.error = "none" THEN "ready" ELSE q.error
        /\ _start' = q.start
        /\ _end' = q.end
        /\ _multipliers' = q.multipliers
        /\ _fixed_letters' = q.fixed_letters
        /\ _open_letters' = q.open_letters
        /\ _context_parts' = q.context_parts
        /\ _letter_pool' = q.letter_pool
    /\ UNCHANGED <<poolVars, pool, wordlist, _regex, runVars, callVars>>

\* the start offsets finditer reports for word, as a set
StartSet(re, word) ==
    LET starts == FindIter(re, word, 0) IN {starts[i] : i \in 1..Len(starts)}

\* query.execute(words) on a LinearQuery, up to the first turn of the loop
LinearExecute ==
    /\ kind = "linear"
    /\ status = "ready"
    /\ \E words \in WordLists :
        /\ wordlist' = words
        /\ remaining' = words
    /\ status' = "running"
    /\ calls' = calls + 1
    /\ UNCHANGED <<poolVars, pool, queryVars, regex, validated, yielded, earlier>>

\* one turn of the loop with a validator that takes the tiles of a word it accepts
\* out of self._letter_pool itself instead of counting them in use_letters
LinearExecuteWordConsuming ==
    /\ kind = "linear"
    /\ status = "running"
    /\ \E word \in remaining :
        LET starts == IF _regex.compiled THEN StartSet(_regex, word) ELSE {0}
            found == IF _regex.compiled
                     THEN {LinearValidate(word, s) : s \in starts} \ {NoMatch}
                     ELSE {_match_empty_query(word)} \ {NoMatch}
        IN /\ remaining' = remaining \ {word}
           /\ validated' = IF _regex.compiled THEN validated \cup {<<word, s>> : s \in starts}
                                               ELSE validated
           /\ yielded' = yielded \cup found
           /\ _letter_pool' = IF found = {} THEN _letter_pool
                               ELSE [l \in DOMAIN _letter_pool |->
                                        _letter_pool[l] - Cardinality({i \in 1..Len(word) : word[i] = l})]
    /\ status' = IF remaining' = {} THEN "done" ELSE "running"
    /\ UNCHANGED <<poolVars, pool, wordlist, kind, string, context, _regex, _start, _end,
                   _multipliers, _fixed_letters, _open_letters, _context_parts, regex, callVars>>

\* one turn of "for word in wordlist" in LinearQuery.execute: every match of
\* finditer is validated and the records that are not None are yielded
LinearExecuteWord ==
    /\ kind = "linear"
    /\ status = "running"
    /\ \E word \in remaining :
        /\ remaining' = remaining \ {word}
        /\ IF ~_regex.compiled
           THEN /\ validated' = validated
                /\ yielded' = yielded \cup ({_match_empty_query(word)} \ {NoMatch})
           ELSE LET starts == StartSet(_regex, word) IN
                /\ validated' = validated \cup {<<word, s>> : s \in starts}
                /\ yielded' = yielded \cup ({LinearValidate(word, s) : s \in starts} \ {NoMatch})
    /\ status' = IF remaining' = {} THEN "done" ELSE "running"
    /\ UNCHANGED <<poolVars, pool, wordlist, queryVars, regex, callVars>>

\* query.execute(words) on a TransverseQuery, up to the first turn of the loop:
\* the regex is built from the wordlist, and None ends the generator
TransverseExecute ==
    /\ kind = "transverse"
    /\ status = "ready"
    /\ \E words \in WordLists :
        LET re == _build_linear_query_regex(words) IN
        /\ wordlist' = words
        /\ regex' = re
        /\ status' = IF re.compiled THEN "running" ELSE "done"
        /\ remaining' = IF re.compiled THEN words ELSE {}
    /\ calls' = calls + 1
    /\ UNCHANGED <<poolVars, pool, queryVars, validated, yielded, earlier>>

\* one turn of "for word in wordlist" in TransverseQuery.execute
TransverseExecuteWord ==
    /\ kind = "transverse"
    /\ status = "running"
    /\ \E word \in remaining :
        LET starts == StartSet(regex, word) IN
        /\ remaining' = remaining \ {word}
        /\ validated' = validated \cup {<<word, s>> : s \in starts}
        /\ yielded' = yielded \cup ({TransverseValidate(word, s) : s \in starts} \ {NoMatch})
    /\ status' = IF remaining' = {} THEN "done" ELSE "running"
    /\ UNCHANGED <<poolVars, pool, wordlist, queryVars, regex, callVars>>

Next ==
    \/ NewLinearQuery
    \/ NewTransverseQuery
    \/ LinearExecute
    \/ LinearExecuteWord
    \/ TransverseExecute
    \/ TransverseExecuteWord

Spec == Init /\ [][Next]_vars

\* query.execute(wordlist) called once more on a LinearQuery whose generator is
\* exhausted, with the lexicon of the call before
LinearExecuteAgain ==
    /\ kind = "linear"
    /\ status = "done"
    /\ calls < MaxCalls
    /\ calls' = calls + 1
    /\ earlier' = yielded
    /\ remaining' = wordlist
    /\ validated' = {}
    /\ yielded' = {}
    /\ status' = "running"
    /\ UNCHANGED <<poolVars, pool, wordlist, queryVars, regex>>

\* the same on a TransverseQuery: the regex is built again from the wordlist
TransverseExecuteAgain ==
    /\ kind = "transverse"
    /\ status = "done"
    /\ calls < MaxCalls
    /\ calls' = calls + 1
    /\ earlier' = yielded
    /\ LET re == _build_linear_query_regex(wordlist) IN
        /\ regex' = re
        /\ status' = IF re.compiled THEN "running" ELSE "done"
        /\ remaining' = IF re.compiled THEN wordlist ELSE {}
    /\ validated' = {}
    /\ yielded' = {}
    /\ UNCHANGED <<poolVars, pool, wordlist, queryVars>>

NextTwice ==
    \/ Next
    \/ LinearExecuteAgain
    \/ TransverseExecuteAgain

SpecTwice == Init /\ [][NextTwice]_vars

----------------------------------------------------------------------------
(* Claims about parse_letter_pool (checked under SpecPool) *)

\* the grammar ((\d+)?[A-Za-z*])* read position by position: only digits and
\* letter characters, and the last character is a letter character
WellFormedPoolSpec(s) ==
    /\ \A i \in 1..Len(s) : s[i] \in Digits \cup LetterChars
    /\ Len(s) > 0 => s[Len(s)] \in LetterChars

HasForeignChar(s) == \E i \in 1..Len(s) : s[i] \notin Digits \cup LetterChars

\* a digit whose digit run is not followed by a letter character
HasDanglingCount(s) ==
    \E i \in 1..Len(s) : s[i] \in Digits /\ (i = Len(s) \/ s[i + 1] \notin Digits \cup LetterChars)

\* first index of the digit run that ends just before j
RECURSIVE RunStart(_, _)
RunStart(s, j) == IF j > 1 /\ s[j - 1] \in Digits THEN RunStart(s, j - 1) ELSE j

RECURSIVE DecimalValue(_, _, _, _)
DecimalValue(s, i, j, acc) == IF i >= j THEN acc ELSE DecimalValue(s, i + 1, j, 10 * acc + DigitVal(s[i]))

\* the count written in front of the letter at j, 1 when there is none
WrittenCount(s, j) == IF RunStart(s, j) = j THEN 1 ELSE DecimalValue(s, RunStart(s, j), j, 0)

RECURSIVE SumWritten(_, _, _)
SumWritten(s, l, j) ==
    IF j = 0 THEN 0
    ELSE SumWritten(s, l, j - 1) + (IF s[j] \in LetterChars /\ Upper(s[j]) = l THEN WrittenCount(s, j) ELSE 0)

\* C7: a pool specification with a character outside [0-9A-Za-z*] or with a count
\* that no letter follows is rejected with a parse error and no pool is returned.
C7_MalformedSpecRaises ==
    (parse_status # "pending" /\ (HasForeignChar(pool_spec) \/ HasDanglingCount(pool_spec)))
        => parse_status = "raised"

\* C8: for a well-formed pool specification the returned Counter holds, for each
\* letter, the sum of the counts of its tokens (a missing count is 1, case is ignored).
C8_PoolIsSumOfTokens ==
    (parse_status = "returned" /\ WellFormedPoolSpec(pool_spec))
        => \A l \in Letter : Get(pool, l) = SumWritten(pool_spec, l, Len(pool_spec))

\* a well-formed specification with a counted token and a repeated letter has been parsed
C8_Witness ==
    /\ parse_status = "returned"
    /\ WellFormedPoolSpec(pool_spec)
    /\ \E i, j \in 1..Len(pool_spec) :
          /\ i < j
          /\ i + 1 = j
          /\ pool_spec[i] \in Digits
          /\ pool_spec[j] \in LetterChars
          /\ \E k \in 1..Len(pool_spec) :
                k # j /\ pool_spec[k] \in LetterChars /\ Upper(pool_spec[k]) = Upper(pool_spec[j])

----------------------------------------------------------------------------
(* Claims about LinearQuery and TransverseQuery (checked under Spec) *)

\* the query was constructed from a string _query_re matches
Constructed == kind # "none" /\ QueryReFullmatch(string).ok

\* the positions of the query string, anchors taken off
Body == QueryReFullmatch(string).spec

StartAnchored == QueryReFullmatch(string).start

EndAnchored == QueryReFullmatch(string).end

\* the compiled pattern the running query scans with
ScanRegex == IF kind = "linear" THEN _regex ELSE regex

\* number of positions of the body that hold the lowercase form of letter l
LowerFixed(l) == Cardinality({i \in 1..Len(Body) : IsLower(Body[i]) /\ Upper(Body[i]) = l})

Max0(n) == IF n > 0 THEN n ELSE 0

RECURSIVE SumSet(_, _)
SumSet(f, S) == IF S = {} THEN 0 ELSE LET x == CHOOSE y \in S : TRUE IN f[x] + SumSet(f, S \ {x})

\* the letters the validator charges to the pool for the match of word at start_pos
Charged(word, start_pos, l) ==
    Cardinality({c \in CheckLetters(word, start_pos) : c[3] = l})

\* C1: every match record a LinearQuery yields can be laid with the tiles of the
\* pool: giving each lowercase-fixed position and each charged letter its own tile
\* or a WILD tile, no tile twice, needs no more WILD tiles than the pool holds.
C1_MatchesAreFeasible ==
    kind = "linear" =>
        \A m \in yielded :
            SumSet([l \in ALL_LETTERS |->
                        Max0(LowerFixed(l) + Charged(m.word, m.start_pos, l) - Get(pool, l))],
                   ALL_LETTERS) <= Get(pool, WILD)

\* the score of laying real tiles on the positions R of the check letters C
RealScore(R) == SumSet([c \in R |-> LETTER_SCORES[c[3]] * c[1]], R)

\* R can take real tiles and the rest of C wildcards within the working pool
Affordable(C, R) ==
    /\ \A l \in ALL_LETTERS : Cardinality({c \in R : c[3] = l}) <= Max0(Get(_letter_pool, l))
    /\ Cardinality(C \ R) <= Get(_letter_pool, WILD)

\* C2: the score of every match a LinearQuery yields for a pattern is the largest
\* score of any assignment of tiles to the non-fixed positions within the counts of
\* the working pool (own letter: value x multiplier, WILD: 0), plus the fixed letters.
C2_GreedyIsOptimal ==
    (kind = "linear" /\ _regex.compiled) =>
        \A m \in yielded :
            LET C == CheckLetters(m.word, m.start_pos) IN
            /\ \E R \in SUBSET C : Affordable(C, R) /\ m.score = RealScore(R) + FixedScore
            /\ \A R \in SUBSET C : Affordable(C, R) => m.score >= RealScore(R) + FixedScore

\* a match in which one letter stands on squares of different multipliers and the
\* working pool holds a single tile of it, so that a wildcard takes the other square
C2_Witness ==
    /\ kind = "linear"
    /\ _regex.compiled
    /\ \E m \in yielded :
         \E c, d \in CheckLetters(m.word, m.start_pos) :
            c[3] = d[3] /\ c[1] > d[1] /\ Get(_letter_pool, c[3]) = 1

\* C3: when the scan of a non-empty pattern is over, every offset of every word at
\* which the window satisfies the classes and the anchors went to the validator,
\* offsets that overlap an earlier match included.
C3_EveryMatchingOffsetValidated ==
    (status = "done" /\ ScanRegex.compiled /\ Len(ScanRegex.parts) > 0) =>
        \A w \in wordlist : \A s \in 0..Len(w) :
            MatchAt(ScanRegex, w, s) => <<w, s>> \in validated

\* the validator of the running query
Validate(word, start_pos) ==
    IF kind = "linear" THEN LinearValidate(word, start_pos) ELSE TransverseValidate(word, start_pos)

\* the window of word that a match of the pattern at start_pos covers
Window(word, start_pos) == SubSeq(word, start_pos + 1, start_pos + Len(ScanRegex.parts))

\* C4 as stated: the outcome of validating a window depends on the window alone;
\* it is the outcome for the window standing as a word of its own.
C4_WindowLocal ==
    (ScanRegex.compiled /\ Len(ScanRegex.parts) > 0) =>
        \A v \in validated :
            LET whole == Validate(v[1], v[2])
                alone == Validate(Window(v[1], v[2]), 0)
            IN whole.matched = alone.matched /\ whole.score = alone.score

\* the indices of the whole word that do not fall on a fixed position of the pattern
NonFixed(word, start_pos) ==
    {idx \in 0..(Len(word) - 1) : (idx - start_pos) \notin DOMAIN _fixed_letters}

\* occurrences of letter l among them
Need(word, start_pos, l) ==
    Cardinality({idx \in NonFixed(word, start_pos) : Ch(word, idx) = l})

\* occurrences of letter l among them on squares of multiplier k (1 outside the window)
Occ(word, start_pos, l, k) ==
    Cardinality({idx \in NonFixed(word, start_pos) :
                    Ch(word, idx) = l /\ MultOf(idx - start_pos) = k})

Min(a, b) == IF a < b THEN a ELSE b

\* value of letter l on its n best squares among the non-fixed positions of the word
TopSquares(word, start_pos, l, n) ==
    LET n3 == Min(n, Occ(word, start_pos, l, 3))
        n2 == Min(n - n3, Occ(word, start_pos, l, 2))
        n1 == Min(n - n3 - n2, Occ(word, start_pos, l, 1))
    IN LETTER_SCORES[l] * (3 * n3 + 2 * n2 + n1)

\* wildcards the whole word needs beyond the working pool's own tiles
WildNeed(word, start_pos) ==
    SumSet([l \in ALL_LETTERS |-> Max0(Need(word, start_pos, l) - Max0(Get(_letter_pool, l)))],
           ALL_LETTERS)

\* C4 as amended: validation covers the whole word.  A validated window yields a
\* match exactly when the word's length less the fixed positions is within the
\* total of the working pool and the letters of the whole word outside the fixed
\* positions can be laid from it; every such letter, inside the window or not,
\* scores its value times the multiplier of its position (1 outside the window).
C4_WholeWordValidated ==
    (ScanRegex.compiled /\ Len(ScanRegex.parts) > 0) =>
        \A v \in validated :
            LET word == v[1]
                start_pos == v[2]
                fits == /\ Len(word) - Cardinality(DOMAIN _fixed_letters) <= Total(_letter_pool)
                        /\ WildNeed(word, start_pos) <= Get(_letter_pool, WILD)
                expected == FixedScore + SumSet(
                    [l \in ALL_LETTERS |->
                        TopSquares(word, start_pos, l,
                                   Min(Need(word, start_pos, l), Max0(Get(_letter_pool, l))))],
                    ALL_LETTERS)
            IN /\ fits <=> \E m \in yielded : m.word = word /\ m.start_pos = start_pos
               /\ \A m \in yielded : (m.word = word /\ m.start_pos = start_pos) => m.score = expected

\* a match has been yielded whose word has letters before and after the window
C4_Witness ==
    /\ ScanRegex.compiled
    /\ Len(ScanRegex.parts) > 0
    /\ \E m \in yielded :
          /\ m.start_pos > 0
          /\ m.start_pos + Len(ScanRegex.parts) < Len(m.word)
          /\ <<m.word, m.start_pos>> \in validated

\* C5: the score of a secondary record is the value of the letter laid plus the
\* values of the letters of its context, whatever the multiplier of the position
\* and the letters laid elsewhere; total_score adds the secondary scores to the score.
C5_SecondaryScore ==
    kind = "transverse" =>
        \A m \in yielded :
            /\ \A i \in 1..Len(m.extra_words) :
                   m.extra_words[i].score = PartScore(m.extra_words[i].word)
            /\ total_score(m) = m.score + SumExtra(m.extra_words)

\* C6: for every match of a TransverseQuery and every open position with a context
\* the secondary word recorded is before + the word's letter there + after, and it
\* is a word of the wordlist, also when a wildcard is laid.
C6_SecondaryWordInLexicon ==
    kind = "transverse" =>
        \A m \in yielded :
            /\ Len(m.extra_words) = Cardinality(DOMAIN _context_parts)
            /\ \A pos \in DOMAIN _context_parts :
                   LET crossword == _context_parts[pos][1]
                                        \o <<Ch(m.word, m.start_pos + pos)>>
                                        \o _context_parts[pos][2]
                   IN /\ crossword \in wordlist
                      /\ \E i \in 1..Len(m.extra_words) : m.extra_words[i].word = crossword

\* the shortfall of the query string against the pool
StringShortfall == SumSet([l \in ALL_LETTERS |-> Max0(LowerFixed(l) - Get(pool, l))], ALL_LETTERS)

\* C9: constructing a query from a string with positions raises QueryError exactly
\* when the lowercase-fixed letters exceed the pool by more than its WILD count, and
\* then no word is scanned and no match is yielded.
C9_QueryErrorIffShortfall ==
    (Constructed /\ Len(Body) > 0) =>
        /\ status = "QueryError" <=> StringShortfall > Get(pool, WILD)
        /\ status = "QueryError" => (wordlist = {} /\ validated = {} /\ yielded = {})

\* construction failed though the pool holds a wildcard
C9_Witness == Constructed /\ Len(Body) > 0 /\ status = "QueryError" /\ Get(pool, WILD) >= 1

\* C10 as stated: every match of a start-anchored query string begins at offset 0,
\* every match of an end-anchored one ends with the word.
C10_Anchors ==
    Constructed =>
        \A m \in yielded :
            /\ StartAnchored => m.start_pos = 0
            /\ EndAnchored => m.start_pos + Len(Body) = Len(m.word)

\* C10 as amended: the same for query strings with at least one position.
C10_AnchorsOfPatterns ==
    (Constructed /\ Len(Body) > 0) =>
        \A m \in yielded :
            /\ StartAnchored => m.start_pos = 0
            /\ EndAnchored => m.start_pos + Len(Body) = Len(m.word)

\* an end-anchored pattern matched a longer word, at its end
C10_Witness ==
    /\ Constructed
    /\ Len(Body) > 0
    /\ EndAnchored
    /\ \E m \in yielded : Len(m.word) > Len(Body) /\ m.start_pos > 0

----------------------------------------------------------------------------
(* Claims about the empty query and the transverse context (checked under Spec) *)

\* number of occurrences of letter l in word w
Occurrences(w, l) == Cardinality({i \in 1..Len(w) : w[i] = l})

\* the letters of w the pool has no tile of its own for
WordShortfall(w) ==
    SumSet([l \in ALL_LETTERS |-> Max0(Occurrences(w, l) - Get(pool, l))], ALL_LETTERS)

\* the value of the real tiles the pool lays on w
PoolScore(w) ==
    SumSet([l \in ALL_LETTERS |-> LETTER_SCORES[l] * Min(Occurrences(w, l), Get(pool, l))],
           ALL_LETTERS)

\* C11: with a zero-length pattern LinearQuery.execute yields at most one record
\* for each word, at start offset 0, exactly when the letters the pool lacks are no
\* more than its WILD count, and the score is the value of the real tiles used.
C11_EmptyQueryMatches ==
    (kind = "linear" /\ Constructed /\ Len(Body) = 0) =>
        /\ \A m \in yielded :
              /\ m.start_pos = 0
              /\ m.word \in wordlist
              /\ WordShortfall(m.word) <= Get(pool, WILD)
              /\ m.score = PoolScore(m.word)
        /\ \A m1, m2 \in yielded : m1.word = m2.word => m1 = m2
        /\ \A w \in wordlist \ remaining :
              WordShortfall(w) <= Get(pool, WILD) => \E m \in yielded : m.word = w

\* an empty query ran to its end and yielded a word laid with a real tile and a
\* wildcard, the example of the claim in small
C11_Witness ==
    /\ kind = "linear"
    /\ Constructed
    /\ Len(Body) = 0
    /\ status = "done"
    /\ \E m \in yielded :
          /\ WordShortfall(m.word) >= 1
          /\ PoolScore(m.word) > 0
          /\ m.score = PoolScore(m.word)

\* an empty query ran to its end and rejected a word that passed the length check
C11_Rejects ==
    /\ kind = "linear"
    /\ Constructed
    /\ Len(Body) = 0
    /\ status = "done"
    /\ \E w \in wordlist :
          /\ Len(w) <= Total(pool)
          /\ \A m \in yielded : m.word # w

\* the letters a tile of the caller's pool can stand for
Candidates == IF WILD \in DOMAIN pool THEN ALL_LETTERS ELSE DOMAIN pool \ {WILD}

\* the i-th context token has letters before or after its dot
ContextBearing(i) ==
    LET m == ContextReFullmatch(context[i]) IN m.ok /\ (m.before # <<>> \/ m.after # <<>>)

\* no candidate letter completes the i-th context token to a word of the lexicon
NoCrossword(i) ==
    LET m == ContextReFullmatch(context[i]) IN
    \A L \in Candidates : (UpperStr(m.before) \o <<L>> \o UpperStr(m.after)) \notin wordlist

\* C12: when some context-bearing open position admits no candidate letter,
\* TransverseQuery.execute ends at once: no regex is compiled, no word of the
\* lexicon is taken up, nothing is validated and nothing is yielded.
C12_EmptyNarrowingShortCircuits ==
    (kind = "transverse" /\ status \in {"running", "done"}
        /\ \E i \in 1..Len(context) : ContextBearing(i) /\ NoCrossword(i)) =>
        /\ status = "done"
        /\ ~regex.compiled
        /\ remaining = {}
        /\ validated = {}
        /\ yielded = {}

\* execute ended at once on a lexicon holding a word the pattern alone matches:
\* the second of two context positions admits no letter, the first admits one
C12_Witness ==
    /\ kind = "transverse"
    /\ status = "done"
    /\ ~regex.compiled
    /\ Len(context) = 2
    /\ ContextBearing(1) /\ ~NoCrossword(1)
    /\ ContextBearing(2) /\ NoCrossword(2)
    /\ \E w \in wordlist : Len(w) = Len(Body) /\ \A i \in 1..Len(w) : w[i] \in Candidates
    /\ yielded = {}

\* the open positions of the pattern, 0-based
OpenPositions == {p \in 0..(Len(Body) - 1) : Body[p + 1] \in {".", "#", "!"}}

\* the i-th open position from the left
NthOpen(i) == CHOOSE p \in OpenPositions : Cardinality({q \in OpenPositions : q <= p}) = i

\* the context does not fit the pattern: wrong number of tokens or a malformed token
BadContext ==
    \/ Len(context) # Cardinality(OpenPositions)
    \/ \E i \in 1..Len(context) : ~ContextReFullmatch(context[i]).ok

\* the i-th token is attached to the i-th open position and nothing else is attached
ContextAttached ==
    /\ Len(context) = Cardinality(OpenPositions)
    /\ DOMAIN _context_parts \subseteq OpenPositions
    /\ \A i \in 1..Len(context) :
          LET m == ContextReFullmatch(context[i]) IN
          IF ContextBearing(i)
          THEN /\ NthOpen(i) \in DOMAIN _context_parts
               /\ _context_parts[NthOpen(i)] = <<UpperStr(m.before), UpperStr(m.after)>>
          ELSE NthOpen(i) \notin DOMAIN _context_parts

\* C13 as stated: a TransverseQuery whose context does not fit its pattern fails
\* at construction with ValueError before the lexicon is touched, and a
\* constructed one has its i-th token attached to its i-th open position.
C13_ContextChecked ==
    (kind = "transverse" /\ Constructed) =>
        /\ BadContext => (status = "ValueError" /\ wordlist = {} /\ yielded = {})
        /\ status \in {"ready", "running", "done"} => ContextAttached

\* C13 as amended: the same, except that a pattern the pool cannot satisfy fails
\* with QueryError first, whatever its context.
C13_ContextCheckedAfterPattern ==
    (kind = "transverse" /\ Constructed) =>
        /\ BadContext =>
              /\ status = (IF StringShortfall > Get(pool, WILD) THEN "QueryError" ELSE "ValueError")
              /\ wordlist = {}
              /\ yielded = {}
        /\ status \in {"ready", "running", "done"} => ContextAttached

\* a satisfiable pattern with an open position was refused for its context alone:
\* the tokens are well formed, their number is wrong
C13_Witness ==
    /\ kind = "transverse"
    /\ Constructed
    /\ StringShortfall <= Get(pool, WILD)
    /\ Cardinality(OpenPositions) = 1
    /\ Len(context) = 2
    /\ \A i \in 1..Len(context) : ContextReFullmatch(context[i]).ok
    /\ status = "ValueError"

\* a query was constructed whose only token went to the open position behind a
\* fixed letter
C13_Attached ==
    /\ kind = "transverse"
    /\ status = "ready"
    /\ Len(Body) = 2
    /\ OpenPositions = {1}
    /\ ContextBearing(1)
    /\ DOMAIN _context_parts = {1}

----------------------------------------------------------------------------
(* Claims about repeated calls of execute (checked under SpecTwice) *)

\* the compiled state of the query is what its constructor left
CompiledStateIntact ==
    /\ kind = "linear" =>
          LET q == LinearParse(string, pool) IN
          /\ _regex = q.regex
          /\ _multipliers = q.multipliers
          /\ _fixed_letters = q.fixed_letters
          /\ _letter_pool = q.letter_pool
    /\ kind = "transverse" =>
          LET q == TransverseParse(string, context, pool) IN
          /\ _start = q.start
          /\ _end = q.end
          /\ _multipliers = q.multipliers
          /\ _fixed_letters = q.fixed_letters
          /\ _open_letters = q.open_letters
          /\ _context_parts = q.context_parts
          /\ _letter_pool = q.letter_pool

\* C14: execute changes neither the caller's pool nor the compiled state of the
\* query, and a second call with the same lexicon, run to its end, has yielded
\* the set of match records the first call yielded.
C14_ExecuteIsRepeatable ==
    (kind # "none" /\ status \in {"ready", "running", "done"}) =>
        /\ pool = parse_letter_pool(pool_spec)
        /\ CompiledStateIntact
        /\ (calls >= 2 /\ status = "done") => yielded = earlier

\* a second call over a lexicon of two words ended with records of a query whose
\* working pool differs from the caller's pool
C14_Witness ==
    /\ calls = 2
    /\ status = "done"
    /\ Cardinality(wordlist) >= 2
    /\ _letter_pool # pool
    /\ yielded # {}
    /\ yielded = earlier

----------------------------------------------------------------------------
(* Claims about the working pool (checked under Spec) *)

\* C15: once a query is constructed its working pool holds no negative count:
\* each letter keeps the tiles the lowercase-fixed positions left of it, and WILD
\* has lost one tile for every lowercase-fixed position the letters did not cover.
C15_WorkingPoolReconciled ==
    (Constructed /\ status \in {"ready", "running", "done"}) =>
        /\ \A l \in DOMAIN _letter_pool : _letter_pool[l] >= 0
        /\ \A l \in ALL_LETTERS : Get(_letter_pool, l) = Max0(Get(pool, l) - LowerFixed(l))
        /\ Get(_letter_pool, WILD) = Get(pool, WILD) - StringShortfall

====
